---- MODULE Spec2Model ----
(***************************************************************************)
(* MsGraphBatchProcessor (src/src/main.ts): chunking of the input, the     *)
(* PQueue dispatch loop of processBatch, the retry recursion of            *)
(* processSingleBatchWithRetry and the positional reconciliation of        *)
(* processBatchResponse.                                                   *)
(***************************************************************************)
EXTENDS Integers, Sequences, FiniteSets, TLC

\* ---------------------------------------------------------------- bounds
MaxItems == 2
MaxBatchSize == 2
MaxConcurrency == 2
MaxRetries == 2
MaxChunkItems == 4

\* ------------------------------------------------------------ input data
\* The opaque caller items (T); two values, so that a sequence can repeat one.
\* Nothing reads an item, so the first item of an input is called "a".
ItemValues == {"a", "b"}

\* originalItems[index] past the end of the array
Undefined == "undefined"

RECURSIVE SeqsUpTo(_, _)
SeqsUpTo(S, n) ==
    IF n = 0 THEN {<<>>}
    ELSE LET shorter == SeqsUpTo(S, n - 1)
         IN  shorter \cup {Append(s, x) : s \in {t \in shorter : Len(t) = n - 1}, x \in S}

Min(a, b) == IF a < b THEN a ELSE b
Max(a, b) == IF a > b THEN a ELSE b

\* ---------------------------------------------------------- JS coercions
\* A JS number: NaN, or an integer.
NaN == [nan |-> TRUE, val |-> 0]
Num(n) == [nan |-> FALSE, val |-> n]

Digits == <<"0", "1", "2", "3", "4", "5", "6", "7", "8", "9">>
IsDigit(c) == \E d \in 1..10 : Digits[d] = c
DigitVal(c) == (CHOOSE d \in 1..10 : Digits[d] = c) - 1

RECURSIVE DigitsValue(_, _)
DigitsValue(cs, acc) ==
    IF cs = <<>> THEN acc ELSE DigitsValue(Tail(cs), acc * 10 + DigitVal(Head(cs)))

\* Number(s) of a string s, given as its characters: "" is 0, an optionally
\* signed run of digits is its value, anything else is NaN.
StringToNumber(cs) ==
    LET signed == cs # <<>> /\ Head(cs) \in {"-", "+"}
        body   == IF signed THEN Tail(cs) ELSE cs
    IN  IF cs = <<>> THEN Num(0)
        ELSE IF body # <<>> /\ \A i \in 1..Len(body) : IsDigit(body[i])
             THEN Num((IF Head(cs) = "-" THEN -1 ELSE 1) * DigitsValue(body, 0))
             ELSE NaN

\* A header lookup yields undefined (the error has no headers), null (no such
\* header) or the header's string.
HUndefined == [t |-> "undefined", s |-> <<>>]
HNull == [t |-> "null", s |-> <<>>]
HString(cs) == [t |-> "string", s |-> cs]

\* Number(v): Number(undefined) is NaN, Number(null) is 0.
ToNumber(v) ==
    CASE v.t = "undefined" -> NaN
      [] v.t = "null" -> Num(0)
      [] OTHER -> StringToNumber(v.s)

\* x || y on numbers: NaN and 0 are falsy.
OrElse(x, y) == IF x.nan \/ x.val = 0 THEN y ELSE x

\* ------------------------------------------------- the remote's answers
\* An error thrown by client.api('/$batch').post: its name and message, its
\* statusCode (<<>> when the error carries none) and what
\* headers?.get('Retry-After') yields on it.
GraphError(code, header) ==
    [name |-> "GraphError", message |-> ToString(code), statusCode |-> <<code>>,
     retryAfterHeader |-> header]
NetworkError ==
    [name |-> "TypeError", message |-> "fetch failed", statusCode |-> <<>>,
     retryAfterHeader |-> HUndefined]
\* thrown inside the try block by responses.forEach when the envelope has no
\* responses array
MalformedError ==
    [name |-> "TypeError", message |-> "Cannot read properties of undefined",
     statusCode |-> <<>>, retryAfterHeader |-> HUndefined]

RetryHints ==
    {HUndefined, HNull, HString(<<"0">>), HString(<<"5">>), HString(<<"-", "1">>),
     HString(<<"s", "o", "o", "n">>)}

RemoteErrors ==
    {GraphError(429, h) : h \in RetryHints} \cup {GraphError(500, HNull), NetworkError}

\* this.options.retryDelay as its comment documents it
DefaultRetryDelay == 1000

\* uuid4(): an id no other call of uuid4 returns; here the place of the call
Uuid4(g, attempt, i) == <<g, attempt, i>>

\* the caller's requestBuilder, as in the usage example
RequestBuilder(item) == [method |-> "GET", url |-> <<"/users/", item>>]

\* A sub-response: status and optional body; a body carries data or an
\* embedded error message ("" when it has none).
NoBody == [present |-> FALSE, data |-> "", errorMessage |-> ""]
DataBody == [present |-> TRUE, data |-> "payload", errorMessage |-> ""]
ErrorBody(msg) == [present |-> TRUE, data |-> "", errorMessage |-> msg]

SubResponses ==
    {[status |-> 200, body |-> DataBody],
     [status |-> 204, body |-> NoBody],
     [status |-> 404, body |-> ErrorBody("not found")],
     [status |-> 429, body |-> NoBody]}

\* The envelopes the endpoint can answer a group of n requests with: one
\* sub-response per request, one too few or one too many (all of them 200
\* here), or no responses array.
Envelopes(n) ==
    {[defined |-> TRUE, responses |-> r] :
        r \in {s \in SeqsUpTo(SubResponses, n) : Len(s) = n}}
    \cup {[defined |-> TRUE,
           responses |-> [i \in 1..k |-> [status |-> 200, body |-> DataBody]]] :
                k \in {n + 1} \cup ({n - 1} \cap Nat)}
    \cup {[defined |-> FALSE, responses |-> <<>>]}

\* ------------------------------------------------------- pure functions
\* array.slice(from, to), 0-based, to exclusive; a negative index counts from
\* the end of the array.
RelativeIndex(k, len) == IF k < 0 THEN Max(len + k, 0) ELSE Min(k, len)
SliceWithoutLast(array, from, to) ==
    SubSeq(array, RelativeIndex(from, Len(array)) + 1,
                  RelativeIndex(to, Len(array)) - 1)
Slice(array, from, to) ==
    SubSeq(array, RelativeIndex(from, Len(array)) + 1, RelativeIndex(to, Len(array)))

RECURSIVE ChunkFrom(_, _, _)
ChunkFrom(array, size, i) ==
    IF i < Len(array)
    THEN <<Slice(array, i, i + size)>> \o ChunkFrom(array, size, i + size)
    ELSE <<>>

chunkArray(array, size) == ChunkFrom(array, size, 0)

EmptyResult == [successful |-> <<>>, failed |-> <<>>]

ItemAt(originalItems, index) ==
    IF index <= Len(originalItems) THEN originalItems[index] ELSE Undefined

IsSuccessStatusOpenLow(response) ==
    response.status > 200 /\ response.status < 300 /\ response.body.present
IsSuccess(response) ==
    response.status >= 200 /\ response.status < 300 /\ response.body.present

FailureMessage(response) ==
    IF response.body.present /\ response.body.errorMessage # ""
    THEN <<response.body.errorMessage>>
    ELSE <<"Unknown error (Status: ", ToString(response.status), ")">>

RECURSIVE ReconcileFrom(_, _, _, _)
ReconcileFrom(responses, originalItems, index, acc) ==
    IF index > Len(responses) THEN acc
    ELSE LET response == responses[index]
             item == ItemAt(originalItems, index)
         IN  ReconcileFrom(responses, originalItems, index + 1,
                IF IsSuccess(response)
                THEN [acc EXCEPT !.successful =
                        Append(@, [request |-> item, response |-> response.body.data])]
                ELSE [acc EXCEPT !.failed =
                        Append(@, [request |-> item, error |-> FailureMessage(response)])])

processBatchResponse(responses, originalItems) ==
    ReconcileFrom(responses, originalItems, 1, EmptyResult)

ErrorToString(err) == <<err.name, ": ", err.message>>
BatchFailedText(err) == <<"Batch request failed: ">> \o ErrorToString(err)

FailHead(items, err) ==
    [successful |-> <<>>,
     failed |-> IF items = <<>> THEN <<>>
                ELSE <<[request |-> Head(items), error |-> BatchFailedText(err)]>>]
FailAllReversed(items, err) ==
    [successful |-> <<>>,
     failed |-> [i \in 1..Len(items) |->
                    [request |-> items[Len(items) + 1 - i],
                     error |-> BatchFailedText(err)]]]
FailAll(items, err) ==
    [successful |-> <<>>,
     failed |-> [i \in 1..Len(items) |->
                    [request |-> items[i], error |-> BatchFailedText(err)]]]

\* a < b and a <= b on JS numbers: false when either is NaN
LessThan(a, b) == ~a.nan /\ ~b.nan /\ a.val < b.val
LessOrEqual(a, b) == ~a.nan /\ ~b.nan /\ a.val <= b.val

\* the condition of the catch block's retry branch; maxRetries is
\* this.options.maxRetries as a JS number (NaN when the option is undefined)
ShouldRetryInclusive(err, attempt, maxRetries) ==
    err.statusCode = <<429>> /\ LessOrEqual(Num(attempt), maxRetries)
ShouldRetry(err, attempt, maxRetries) ==
    err.statusCode = <<429>> /\ LessThan(Num(attempt), maxRetries)

\* what the catch block does with an error: "retry" or "fail" ("throw" would
\* reject the task's promise)
CatchNeverRetries(err, attempt, maxRetries) == "fail"
CatchRetriesAnyError(err, attempt, maxRetries) ==
    IF LessThan(Num(attempt), maxRetries) THEN "retry" ELSE "fail"
CatchRethrowsOthers(err, attempt, maxRetries) ==
    IF ShouldRetry(err, attempt, maxRetries) THEN "retry"
    ELSE IF err.statusCode = <<429>> THEN "fail" ELSE "throw"
Catch(err, attempt, maxRetries) ==
    IF ShouldRetry(err, attempt, maxRetries) THEN "retry" ELSE "fail"

\* const retryAfter = Number(Number(headers?.get('Retry-After')) || retryDelay);
\* retryDelay is this.options.retryDelay as a JS number
RetryAfter(err, retryDelay) == OrElse(ToNumber(err.retryAfterHeader), retryDelay)

\* setTimeout(resolve, retryAfter * 1000): a negative delay fires at once
TimeoutMs(retryAfter) == Max(0, retryAfter.val * 1000)

\* ---------------------------------------------------------------- state
VARIABLES
    options,       \* this.options
    requests,      \* the items handed to processBatch
    pc,            \* where processBatch stands
    batches,       \* the chunks of requests
    next,          \* index of the batch the for loop is at
    queue,         \* PQueue: tasks added and not started
    pendingCount,  \* PQueue: tasks started and not finished
    tasks,         \* per batch: the task added for it and its retry state
    results,       \* the accumulating BatchResult
    mismatch,      \* an envelope's responses did not number its requests
    chunkIndex,    \* chunkArray: its loop variable i
    intervalElapsed \* queueInterval has passed since PQueue last started a task

vars ==
    <<options, requests, pc, batches, next, queue, pendingCount, tasks, results,
      mismatch, chunkIndex, intervalElapsed>>

NoError == <<>>
NoEnvelope == <<>>

\* A batch's task before queue.add: nothing called, nothing built.
NewTask ==
    [state |-> "new", attempt |-> 0, calls |-> 0, rateLimited |-> 0,
     started |-> 0, built |-> 0, batchRequests |-> <<>>, firstRequests |-> <<>>,
     lastError |-> NoError,
     lastEnvelope |-> NoEnvelope, retryAfter |-> Num(0), timeoutMs |-> 0,
     batchResult |-> EmptyResult]

Groups == DOMAIN tasks

\* this.options[field] where a number is wanted: NaN when the field is
\* undefined
OptionNumber(field) ==
    IF field \in DOMAIN options THEN Num(options[field]) ELSE NaN

InFlight(g) == tasks[g].state \in {"posting", "waiting"}
NumInFlight == Cardinality({g \in Groups : InFlight(g)})

Init ==
    /\ options \in [batchSize : 1..MaxBatchSize, concurrency : 1..MaxConcurrency,
                    maxRetries : 1..MaxRetries, retryDelay : {DefaultRetryDelay}]
    /\ requests \in {r \in SeqsUpTo(ItemValues, MaxItems) : r = <<>> \/ Head(r) = "a"}
    /\ pc = "start"
    /\ batches = <<>>
    /\ next = 1
    /\ queue = <<>>
    /\ pendingCount = 0
    /\ tasks = <<>>
    /\ results = EmptyResult
    /\ mismatch = FALSE
    /\ chunkIndex = 0
    /\ intervalElapsed = TRUE

\* processSingleBatchWithRetry(items, requestBuilder, attempt) up to its
\* await of post: every item is built into a request with a fresh id and the
\* batch is posted.
BatchRequests(g, attempt) ==
    [i \in 1..Len(batches[g]) |->
        [id |-> Uuid4(g, attempt, i),
         method |-> RequestBuilder(batches[g][i]).method,
         url |-> RequestBuilder(batches[g][i]).url]]

Call(t, g, attempt) ==
    [t EXCEPT !.state = "posting",
              !.attempt = attempt,
              !.calls = @ + 1,
              !.built = @ + Len(batches[g]),
              !.batchRequests = BatchRequests(g, attempt),
              !.firstRequests = IF attempt = 1 THEN BatchRequests(g, attempt) ELSE @,
              !.lastError = NoError,
              !.retryAfter = Num(0),
              !.timeoutMs = 0]

\* PQueue runs a task: the queued function is called, which calls
\* processSingleBatchWithRetry with attempt = 1.
RunTask(t, g) == Call([t EXCEPT !.started = @ + 1], g, 1)

\* PQueue: may another task start?
DoesConcurrentAllowAnother(pending) == pending < options.concurrency

\* new PQueue({concurrency, autoStart, interval}): no intervalCap is given, so
\* the cap is Infinity and PQueue does not look at the interval.
IntervalCapGiven == FALSE
IsIntervalIgnored == ~IntervalCapGiven
DoesIntervalAllowAnother == IsIntervalIgnored \/ intervalElapsed

\* const batches = chunkArray(requests, batchSize); new PQueue({...})
Start ==
    /\ pc = "start"
    /\ batches' = chunkArray(requests, options.batchSize)
    /\ tasks' = [g \in 1..Len(batches') |-> NewTask]
    /\ pc' = "loop"
    /\ UNCHANGED <<options, requests, next, queue, pendingCount, results, mismatch,
                   chunkIndex, intervalElapsed>>

\* for (const batch of batches)
LoopHasNextSkipLast == next < Len(batches)
LoopHasNext == next <= Len(batches)

\* queue.add(...) without the await, on a queue with no concurrency limit:
\* the task starts at once and the loop goes on.
QueueAddDetached ==
    /\ pc = "loop"
    /\ LoopHasNext
    /\ tasks' = [tasks EXCEPT ![next] = RunTask(@, next)]
    /\ pendingCount' = pendingCount + 1
    /\ next' = next + 1
    /\ intervalElapsed' = FALSE
    /\ UNCHANGED <<options, requests, pc, batches, queue, results, mismatch,
                   chunkIndex>>

\* await queue.add(async () => {...}): the task is enqueued, PQueue starts it
\* at once when the concurrency allows, and the loop waits for the task's
\* promise.
QueueAdd ==
    /\ pc = "loop"
    /\ LoopHasNext
    /\ IF /\ DoesIntervalAllowAnother
          /\ DoesConcurrentAllowAnother(pendingCount)
          /\ queue = <<>>
       THEN /\ tasks' = [tasks EXCEPT ![next] = RunTask(@, next)]
            /\ pendingCount' = pendingCount + 1
            /\ intervalElapsed' = FALSE
            /\ UNCHANGED queue
       ELSE /\ tasks' = [tasks EXCEPT ![next].state = "queued"]
            /\ queue' = Append(queue, next)
            /\ UNCHANGED <<pendingCount, intervalElapsed>>
    /\ pc' = "awaitAdd"
    /\ UNCHANGED <<options, requests, batches, next, results, mismatch, chunkIndex>>

\* the for loop is over
LoopExit ==
    /\ pc = "loop"
    /\ ~LoopHasNext
    /\ pc' = "onIdle"
    /\ UNCHANGED <<options, requests, batches, next, queue, pendingCount, tasks,
                   results, mismatch, chunkIndex, intervalElapsed>>

\* The catch block of processSingleBatchWithRetry on error err.
Caught(t, items, err) ==
    LET how == Catch(err, t.attempt, OptionNumber("maxRetries"))
        seen == [t EXCEPT !.lastError = <<err>>,
                          !.rateLimited = IF err.statusCode = <<429>> THEN @ + 1 ELSE @]
    IN  CASE how = "retry" ->
                LET retryAfter == RetryAfter(err, OptionNumber("retryDelay"))
                IN  [seen EXCEPT !.state = "waiting",
                                 !.retryAfter = retryAfter,
                                 !.timeoutMs = TimeoutMs(retryAfter)]
          [] how = "fail" ->
                [seen EXCEPT !.state = "settled", !.batchResult = FailAll(items, err)]
          [] OTHER -> [seen EXCEPT !.state = "rejected"]

\* post rejects with err
PostRejects(g, err) ==
    /\ g \in Groups
    /\ tasks[g].state = "posting"
    /\ tasks' = [tasks EXCEPT ![g] = Caught(@, batches[g], err)]
    /\ UNCHANGED <<options, requests, pc, batches, next, queue, pendingCount,
                   results, mismatch, chunkIndex, intervalElapsed>>

\* post resolves with an envelope, and a sub-response of status 429 is taken
\* for a rate-limit error of the call.
PostResolvesSub429AsRateLimit(g, envelope) ==
    /\ g \in Groups
    /\ tasks[g].state = "posting"
    /\ LET t == [tasks[g] EXCEPT !.lastEnvelope = <<envelope>>]
       IN  tasks' = [tasks EXCEPT ![g] =
                IF ~envelope.defined THEN Caught(t, batches[g], MalformedError)
                ELSE IF \E i \in 1..Len(envelope.responses) :
                            envelope.responses[i].status = 429
                THEN Caught(t, batches[g], GraphError(429, HNull))
                ELSE [t EXCEPT !.state = "settled",
                               !.lastError = NoError,
                               !.batchResult =
                                    processBatchResponse(envelope.responses, batches[g])]]
    /\ mismatch' = (mismatch \/
                        (envelope.defined /\ Len(envelope.responses) # Len(batches[g])))
    /\ UNCHANGED <<options, requests, pc, batches, next, queue, pendingCount,
                   results, chunkIndex, intervalElapsed>>

\* post resolves with an envelope: processBatchResponse(response.responses,
\* items), inside the try block.
PostResolves(g, envelope) ==
    /\ g \in Groups
    /\ tasks[g].state = "posting"
    /\ LET t == [tasks[g] EXCEPT !.lastEnvelope = <<envelope>>]
       IN  tasks' = [tasks EXCEPT ![g] =
                IF envelope.defined
                THEN [t EXCEPT !.state = "settled",
                               !.lastError = NoError,
                               !.batchResult =
                                    processBatchResponse(envelope.responses, batches[g])]
                ELSE Caught(t, batches[g], MalformedError)]
    /\ mismatch' = (mismatch \/
                        (envelope.defined /\ Len(envelope.responses) # Len(batches[g])))
    /\ UNCHANGED <<options, requests, pc, batches, next, queue, pendingCount,
                   results, chunkIndex, intervalElapsed>>

\* the backoff timer fires: processSingleBatchWithRetry(items, requestBuilder,
\* attempt + 1)
TimerFires(g) ==
    /\ g \in Groups
    /\ tasks[g].state = "waiting"
    /\ tasks' = [tasks EXCEPT ![g] = Call(@, g, @.attempt + 1)]
    /\ UNCHANGED <<options, requests, pc, batches, next, queue, pendingCount,
                   results, mismatch, chunkIndex, intervalElapsed>>

\* A task that is over: its retry state is gone with its frames; that it was
\* started is remembered.
Finished(t) == [NewTask EXCEPT !.state = "done", !.started = t.started]

\* The task's function resumes from its await: the batch's outcomes are pushed
\* onto results. PQueue then counts the task out and starts the next queued
\* one, and the promise of queue.add settles, which resumes the loop.
TaskReturns(g) ==
    /\ g \in Groups
    /\ tasks[g].state \in {"settled", "rejected"}
    /\ results' =
            IF tasks[g].state = "settled"
            THEN [successful |-> results.successful \o tasks[g].batchResult.successful,
                  failed |-> results.failed \o tasks[g].batchResult.failed]
            ELSE results
    /\ IF /\ queue # <<>>
          /\ DoesIntervalAllowAnother
          /\ DoesConcurrentAllowAnother(pendingCount - 1)
       THEN /\ tasks' = [tasks EXCEPT
                            ![g] = Finished(@),
                            ![Head(queue)] = RunTask(@, Head(queue))]
            /\ queue' = Tail(queue)
            /\ intervalElapsed' = FALSE
            /\ UNCHANGED pendingCount
       ELSE /\ tasks' = [tasks EXCEPT ![g] = Finished(@)]
            /\ pendingCount' = pendingCount - 1
            /\ UNCHANGED <<queue, intervalElapsed>>
    /\ IF pc = "awaitAdd" /\ next = g
       THEN /\ pc' = IF tasks[g].state = "settled" THEN "loop" ELSE "raised"
            /\ next' = IF tasks[g].state = "settled" THEN next + 1 ELSE next
       ELSE UNCHANGED <<pc, next>>
    /\ UNCHANGED <<options, requests, batches, mismatch, chunkIndex>>

\* await queue.onIdle(); logger.info(...); return results
Return ==
    /\ pc = "onIdle"
    /\ queue = <<>>
    /\ pendingCount = 0
    /\ pc' = "returned"
    /\ UNCHANGED <<options, requests, batches, next, queue, pendingCount, tasks,
                   results, mismatch, chunkIndex, intervalElapsed>>

Next ==
    \/ Start
    \/ QueueAdd
    \/ LoopExit
    \/ \E g \in Groups : \E err \in RemoteErrors : PostRejects(g, err)
    \/ \E g \in Groups : \E envelope \in Envelopes(Len(batches[g])) :
            PostResolves(g, envelope)
    \/ \E g \in Groups : TimerFires(g)
    \/ \E g \in Groups : TaskReturns(g)
    \/ Return

Spec == Init /\ [][Next]_vars

\* Every remote call returns, every timer fires and every continuation runs.
FairSpec == Spec /\ WF_vars(Next)

\* The arguments new MsGraphBatchProcessor(client, ...) is called with: no
\* options, or an options object that gives batchSize and concurrency (as the
\* usage example does) and may give maxRetries and retryDelay.
GivenOptions ==
    LET base == [batchSize : 1..MaxBatchSize, concurrency : 1..MaxConcurrency]
    IN  UNION {
          base,
          {[batchSize |-> b.batchSize, concurrency |-> b.concurrency,
            maxRetries |-> m] : b \in base, m \in 1..MaxRetries},
          {[batchSize |-> b.batchSize, concurrency |-> b.concurrency,
            retryDelay |-> DefaultRetryDelay] : b \in base},
          {[batchSize |-> b.batchSize, concurrency |-> b.concurrency,
            maxRetries |-> m, retryDelay |-> DefaultRetryDelay] :
                b \in base, m \in 1..MaxRetries}}

ConstructorArguments ==
    {[given |-> FALSE]} \cup {[given |-> TRUE, value |-> o] : o \in GivenOptions}

\* Before the constructor runs, options holds its argument.
ConstructInit ==
    /\ options \in ConstructorArguments
    /\ requests \in {r \in SeqsUpTo(ItemValues, MaxItems) : r = <<>> \/ Head(r) = "a"}
    /\ pc = "new"
    /\ batches = <<>>
    /\ next = 1
    /\ queue = <<>>
    /\ pendingCount = 0
    /\ tasks = <<>>
    /\ results = EmptyResult
    /\ mismatch = FALSE
    /\ chunkIndex = 0
    /\ intervalElapsed = TRUE

\* The constructor. With no argument the default of the options parameter is
\* evaluated, which reads options.retryDelay of the parameter being
\* initialised and throws. With an argument, this.options = {...options}:
\* the fields given, and no others.
Construct ==
    /\ pc = "new"
    /\ IF options.given
       THEN /\ options' = options.value
            /\ pc' = "start"
       ELSE /\ pc' = "threw"
            /\ UNCHANGED options
    /\ UNCHANGED <<requests, batches, next, queue, pendingCount, tasks, results,
                   mismatch, chunkIndex, intervalElapsed>>

ConstructNext == Construct \/ Next

\* Construction with the caller's arguments, then a processBatch run.
ConstructSpec == ConstructInit /\ [][ConstructNext]_vars

\* chunkArray(array, size), one turn of its for loop at a time; array is
\* requests, size is options.batchSize, chunks is batches. A size that is not
\* positive never ends the loop, which is followed for MaxChunkItems + 1 turns.
ChunkInit ==
    /\ options \in [batchSize : (-1)..(MaxBatchSize + 1), concurrency : {1},
                    maxRetries : {1}, retryDelay : {DefaultRetryDelay}]
    /\ requests \in SeqsUpTo(ItemValues, MaxChunkItems)
    /\ pc = "chunkArray"
    /\ batches = <<>>
    /\ next = 1
    /\ queue = <<>>
    /\ pendingCount = 0
    /\ tasks = <<>>
    /\ results = EmptyResult
    /\ mismatch = FALSE
    /\ chunkIndex = 0
    /\ intervalElapsed = TRUE

\* i < array.length: chunks.push(array.slice(i, i + size)); i += size
ChunkPush ==
    /\ pc = "chunkArray"
    /\ chunkIndex < Len(requests)
    /\ Len(batches) <= MaxChunkItems
    /\ batches' = Append(batches,
                        Slice(requests, chunkIndex, chunkIndex + options.batchSize))
    /\ chunkIndex' = chunkIndex + options.batchSize
    /\ UNCHANGED <<options, requests, pc, next, queue, pendingCount, tasks, results,
                   mismatch, intervalElapsed>>

\* the loop is over: return chunks
ChunkReturn ==
    /\ pc = "chunkArray"
    /\ ~(chunkIndex < Len(requests))
    /\ pc' = "chunked"
    /\ UNCHANGED <<options, requests, batches, next, queue, pendingCount, tasks,
                   results, mismatch, chunkIndex, intervalElapsed>>

ChunkNext == ChunkPush \/ ChunkReturn

ChunkSpec == ChunkInit /\ [][ChunkNext]_vars

\* queueInterval passes without a task being started.
IntervalPasses ==
    /\ ~intervalElapsed
    /\ intervalElapsed' = TRUE
    /\ UNCHANGED <<options, requests, pc, batches, next, queue, pendingCount, tasks,
                   results, mismatch, chunkIndex>>

TimedNext == Next \/ IntervalPasses

\* A processBatch run with the passing of the queue interval observed.
TimedSpec == Init /\ [][TimedNext]_vars

\* --------------------------------------------------------------- claims
Requests(entries) == [i \in 1..Len(entries) |-> entries[i].request]
Count(x, seq) == Cardinality({i \in 1..Len(seq) : seq[i] = x})
SameMultiset(s, t) == \A x \in ItemValues \cup {Undefined} : Count(x, s) = Count(x, t)
Includes(text, part) ==
    \E i \in 1..(Len(text) - Len(part) + 1) : SubSeq(text, i, i + Len(part) - 1) = part

Settled(g) == tasks[g].state = "settled"
FailedWith(g, err) == Settled(g) /\ tasks[g].lastError = <<err>>
Succeeded(g) == Settled(g) /\ tasks[g].lastError = NoError
AllFailedWith(result, items, err) ==
    /\ result.successful = <<>>
    /\ Requests(result.failed) = items
    /\ \A i \in 1..Len(result.failed) :
            Includes(result.failed[i].error, ErrorToString(err))

\* C1: when every successful envelope carried one sub-response per request,
\* the returned BatchResult has as many entries as there were items, and the
\* items of successful and failed together are the input items as a multiset.
C1_NoItemLostOrDuplicated ==
    (pc = "returned" /\ ~mismatch) =>
        /\ Len(results.successful) + Len(results.failed) = Len(requests)
        /\ SameMultiset(Requests(results.successful) \o Requests(results.failed),
                        requests)

C1_Witness ==
    /\ pc = "returned"
    /\ ~mismatch
    /\ Len(batches) >= 2
    /\ results.successful # <<>>
    /\ \E i \in 1..Len(results.failed) :
            Head(results.failed[i].error) = "Batch request failed: "

\* C2: a group whose every call failed with 429 is called exactly maxRetries
\* times and then has all its items failed; no group is ever called more
\* than maxRetries times.
C2_RetryTermination ==
    \A g \in Groups :
        /\ tasks[g].calls <= options.maxRetries
        /\ (Settled(g) /\ tasks[g].rateLimited = tasks[g].calls) =>
                /\ tasks[g].calls = options.maxRetries
                /\ tasks[g].batchResult.successful = <<>>
                /\ Requests(tasks[g].batchResult.failed) = batches[g]

C2_Witness ==
    \E g \in Groups :
        /\ Settled(g)
        /\ tasks[g].rateLimited = tasks[g].calls
        /\ tasks[g].calls >= 2
        /\ Len(batches[g]) >= 2

\* C3: a 429 on an attempt below maxRetries is never what fails a group, and
\* a group that succeeds after 429s has exactly the outcomes of its last
\* envelope: all items successful when every sub-response is a success.
C3_RateLimitNotSurfaced ==
    \A g \in Groups :
        /\ \A h \in RetryHints :
                FailedWith(g, GraphError(429, h)) =>
                    tasks[g].attempt >= options.maxRetries
        /\ (Succeeded(g) /\ tasks[g].rateLimited >= 1) =>
                LET responses == tasks[g].lastEnvelope[1].responses
                IN  /\ Len(tasks[g].batchResult.successful)
                            + Len(tasks[g].batchResult.failed) = Len(responses)
                    /\ \A i \in 1..Len(tasks[g].batchResult.failed) :
                            Head(tasks[g].batchResult.failed[i].error)
                                # "Batch request failed: "
                    /\ (/\ Len(responses) = Len(batches[g])
                        /\ \A i \in 1..Len(responses) :
                                /\ responses[i].status \in 200..299
                                /\ responses[i].body.present)
                        => /\ tasks[g].batchResult.failed = <<>>
                           /\ Requests(tasks[g].batchResult.successful) = batches[g]

C3_Witness ==
    \E g \in Groups :
        /\ Succeeded(g)
        /\ tasks[g].rateLimited >= 1
        /\ Len(batches[g]) >= 2
        /\ tasks[g].batchResult.failed = <<>>
        /\ Requests(tasks[g].batchResult.successful) = batches[g]

\* C4: an error of post that is not a 429 ends the group at once: the group
\* is settled with every item failed, the error text including the error,
\* and a group that is settled or done is never called again.
C4_OtherErrorsNotRetried ==
    /\ [](\A g \in Groups :
            \A err \in {GraphError(500, HNull), NetworkError, MalformedError} :
                tasks[g].lastError = <<err>> =>
                    /\ Settled(g)
                    /\ AllFailedWith(tasks[g].batchResult, batches[g], err))
    /\ [][\A g \in Groups :
            tasks[g].state \in {"settled", "done"} =>
                /\ tasks'[g].state \in {"settled", "done"}
                /\ tasks'[g].calls <= tasks[g].calls]_vars

C4_Witness ==
    \E g \in Groups :
        /\ FailedWith(g, GraphError(500, HNull))
        /\ tasks[g].attempt = 2
        /\ Len(batches[g]) >= 2

\* The seconds a Retry-After hint states: its value when it is a run of
\* digits.
IsSeconds(h) ==
    h.t = "string" /\ h.s # <<>> /\ \A i \in 1..Len(h.s) : IsDigit(h.s[i])

\* C5: on a retried 429 the wait is the hint when the hint is a non-negative
\* number of seconds, 0 included, and retryDelay when the hint is missing or
\* not a number.
C5_BackoffSelection ==
    \A g \in Groups :
        tasks[g].state = "waiting" =>
            LET h == tasks[g].lastError[1].retryAfterHeader
            IN  /\ IsSeconds(h) => tasks[g].retryAfter = Num(DigitsValue(h.s, 0))
                /\ (h.t # "string" \/ StringToNumber(h.s).nan) =>
                        tasks[g].retryAfter = Num(options.retryDelay)

\* C6: never more groups in a network call or a backoff wait than the
\* configured concurrency.
C6_ConcurrencyBound == NumInFlight <= options.concurrency

C6_Witness ==
    /\ NumInFlight = options.concurrency
    /\ \E g \in Groups : tasks[g].state = "waiting"
    /\ \E g \in Groups : tasks[g].state = "new"

\* C7: with concurrency >= 2, while one group is in a network call or a
\* backoff wait and another has not been dispatched yet, the other can be
\* dispatched.
C7_GroupsOverlap ==
    (/\ options.concurrency >= 2
     /\ \E g \in Groups : InFlight(g)
     /\ \E g \in Groups : tasks[g].state = "new")
        => ENABLED QueueAdd

\* C8: every group of the chunker is started, and none is started twice.
C8_EveryGroupOnce ==
    /\ [](\A g \in Groups : tasks[g].started <= 1)
    /\ <>(/\ pc # "start"
          /\ Len(tasks) = Len(batches)
          /\ \A g \in Groups : tasks[g].started = 1)

C8_Witness ==
    /\ pc # "start"
    /\ Len(batches) >= 2
    /\ \A g \in Groups : tasks[g].started = 1

\* C9: processBatch returns only when every group is over, nothing queued or
\* running, and results does not change after the return.
C9_NoEarlyReturn ==
    /\ [](pc = "returned" =>
            /\ \A g \in Groups : tasks[g].state = "done"
            /\ queue = <<>>
            /\ pendingCount = 0)
    /\ [][pc = "returned" => results' = results]_vars

C9_Witness ==
    /\ pc = "returned"
    /\ Len(batches) >= 2
    /\ results.failed # <<>>

\* C10: no error of the remote makes processBatch raise: no task's promise
\* rejects, and a group whose call ended in an error is settled with one
\* failed entry per item.
C10_ErrorsBecomeData ==
    /\ pc # "raised"
    /\ \A g \in Groups :
        /\ tasks[g].state # "rejected"
        /\ (tasks[g].lastError # NoError /\ tasks[g].state # "waiting") =>
                /\ Settled(g)
                /\ Requests(tasks[g].batchResult.failed) = batches[g]

C10_Witness ==
    /\ pc = "returned"
    /\ Len(batches) >= 2
    /\ \E i \in 1..Len(results.failed) :
            Includes(results.failed[i].error, ErrorToString(MalformedError))
    /\ \E i \in 1..Len(results.failed) :
            Includes(results.failed[i].error, ErrorToString(GraphError(429, HNull)))

RECURSIVE Concat(_)
Concat(seqs) == IF seqs = <<>> THEN <<>> ELSE Head(seqs) \o Concat(Tail(seqs))

\* C11: with a batch size that is not positive and a non-empty input,
\* chunking fails: it produces no group and does not return.
C11_InvalidBatchSizeRejected ==
    (options.batchSize <= 0 /\ requests # <<>>) =>
        /\ batches = <<>>
        /\ pc # "chunked"
        /\ \A g \in Groups : tasks[g].calls = 0

\* C15: for a positive size chunkArray returns contiguous groups that
\* concatenate to the input, each of size items but the last, which has 1 to
\* size items.
C15_ChunksPartitionInput ==
    (pc = "chunked" /\ options.batchSize >= 1) =>
        /\ Concat(batches) = requests
        /\ \A k \in 1..Len(batches) :
                IF k < Len(batches)
                THEN Len(batches[k]) = options.batchSize
                ELSE Len(batches[k]) \in 1..options.batchSize
        /\ batches = chunkArray(requests, options.batchSize)

C15_Witness ==
    /\ pc = "chunked"
    /\ options.batchSize = 2
    /\ Len(batches) = 2
    /\ Len(batches[2]) = 1

\* maxRetries: 3 of the default options object
DefaultMaxRetries == 3

\* C12: options not given take their defaults: construction succeeds, and a
\* group whose every call is rate-limited is called maxRetries times, 3 when
\* maxRetries is not given.
C12_DefaultsFillMissingOptions ==
    /\ pc # "threw"
    /\ \A g \in Groups :
            (Settled(g) /\ tasks[g].rateLimited = tasks[g].calls) =>
                tasks[g].calls = IF "maxRetries" \in DOMAIN options
                                 THEN options.maxRetries
                                 ELSE DefaultMaxRetries

\* C13: a group is dispatched after another only when the queue interval
\* has passed since that dispatch.
C13_DispatchThrottle ==
    [][\A g \in Groups :
            (/\ tasks'[g].started > tasks[g].started
             /\ \E h \in Groups : tasks[h].started >= 1)
                => intervalElapsed]_vars

\* C14: requestBuilder is called once per item over the run, retries
\* included.
C14_BuilderOncePerItem ==
    \A g \in Groups :
        /\ tasks[g].built <= Len(batches[g])
        /\ Settled(g) => tasks[g].built = Len(batches[g])

\* C18: the requests posted on a later attempt are those of attempt 1, ids
\* included.
C18_RetryResubmitsSameRequests ==
    \A g \in Groups :
        (tasks[g].state = "posting" /\ tasks[g].attempt >= 2) =>
            tasks[g].batchRequests = tasks[g].firstRequests

\* The members of a set of positions in ascending order.
Ascending(S) ==
    CHOOSE f \in [1..Cardinality(S) -> S] :
        \A i, j \in 1..Cardinality(S) : i < j => f[i] < f[j]
\* sub is seq with some positions left out.
IsSubsequence(sub, seq) ==
    \E f \in [1..Len(sub) -> 1..Len(seq)] :
        /\ \A i, j \in 1..Len(sub) : i < j => f[i] < f[j]
        /\ \A i \in 1..Len(sub) : seq[f[i]] = sub[i]
\* The positions of responses whose status is in [200, 300) with a body.
OkPositions(responses) ==
    {i \in 1..Len(responses) :
        responses[i].status \in 200..299 /\ responses[i].body.present}
\* The envelope group g was answered with has one sub-response per item.
AnsweredInFull(g) ==
    /\ Settled(g)
    /\ tasks[g].lastError = NoError
    /\ tasks[g].lastEnvelope # NoEnvelope
    /\ tasks[g].lastEnvelope[1].defined
    /\ Len(tasks[g].lastEnvelope[1].responses) = Len(batches[g])

\* C16: with as many responses as items, position i yields one outcome for
\* item i: a success with the body when the status is in [200, 300) and a
\* body is present, else a failure with the body's error message or, without
\* one, a text containing the status; each by its own sub-response alone.
C16_ReconcilePerPosition ==
    \A g \in Groups :
        AnsweredInFull(g) =>
            LET responses == tasks[g].lastEnvelope[1].responses
                ok == Ascending(OkPositions(responses))
                bad == Ascending((1..Len(responses)) \ OkPositions(responses))
                result == tasks[g].batchResult
            IN  /\ result.successful =
                        [k \in 1..Len(ok) |->
                            [request |-> batches[g][ok[k]],
                             response |-> responses[ok[k]].body.data]]
                /\ Len(result.failed) = Len(bad)
                /\ \A k \in 1..Len(bad) :
                        /\ result.failed[k].request = batches[g][bad[k]]
                        /\ IF /\ responses[bad[k]].body.present
                              /\ responses[bad[k]].body.errorMessage # ""
                           THEN result.failed[k].error =
                                    <<responses[bad[k]].body.errorMessage>>
                           ELSE Includes(result.failed[k].error,
                                         <<ToString(responses[bad[k]].status)>>)

C16_Witness ==
    \E g \in Groups :
        /\ AnsweredInFull(g)
        /\ Len(batches[g]) = 2
        /\ tasks[g].lastEnvelope[1].responses[1].status = 404
        /\ tasks[g].lastEnvelope[1].responses[2].status = 200
        /\ Requests(tasks[g].batchResult.successful) = <<batches[g][2]>>
        /\ tasks[g].batchResult.failed =
                <<[request |-> batches[g][1], error |-> <<"not found">>]>>

\* C17: an envelope with fewer or more sub-responses than the group has
\* items makes the group fail as a whole (every item failed, or an error
\* raised), never a result with items missing or outcomes without an item.
C17_LengthMismatchFailsLoudly ==
    \A g \in Groups :
        (/\ tasks[g].lastEnvelope # NoEnvelope
         /\ tasks[g].lastEnvelope[1].defined
         /\ Len(tasks[g].lastEnvelope[1].responses) # Len(batches[g]))
            => \/ tasks[g].state = "rejected"
               \/ /\ Settled(g)
                  /\ tasks[g].batchResult.successful = <<>>
                  /\ Requests(tasks[g].batchResult.failed) = batches[g]

NotUndefined(x) == x # Undefined

\* C19: the items of a group keep their input order in successful and in
\* failed, and results changes only when a group's task is over, by that
\* group's outcomes appended as a whole.
C19_GroupOrderKept ==
    /\ [](\A g \in Groups :
            Settled(g) =>
                /\ IsSubsequence(
                        SelectSeq(Requests(tasks[g].batchResult.successful),
                                  NotUndefined), batches[g])
                /\ IsSubsequence(
                        SelectSeq(Requests(tasks[g].batchResult.failed),
                                  NotUndefined), batches[g]))
    /\ [][results' # results =>
            \E g \in Groups :
                /\ Settled(g)
                /\ tasks'[g].state = "done"
                /\ results'.successful =
                        results.successful \o tasks[g].batchResult.successful
                /\ results'.failed =
                        results.failed \o tasks[g].batchResult.failed]_vars

C19_Witness ==
    /\ pc = "returned"
    /\ requests = <<"a", "b">>
    /\ Len(batches) = 1
    /\ Requests(results.failed) = <<"a", "b">>
    /\ Head(results.failed[1].error) = "Batch request failed: "

\* C20: a sub-response of status 429 in an envelope that was returned causes
\* no retry and no wait: the group is settled by that call, the item failed,
\* and the other items are classified by their own sub-responses.
C20_Sub429NotRetried ==
    \A g \in Groups :
        (/\ tasks[g].lastEnvelope # NoEnvelope
         /\ tasks[g].lastEnvelope[1].defined
         /\ Len(tasks[g].lastEnvelope[1].responses) = Len(batches[g])
         /\ \E i \in 1..Len(batches[g]) :
                tasks[g].lastEnvelope[1].responses[i].status = 429)
            => LET responses == tasks[g].lastEnvelope[1].responses
                   hit == {i \in 1..Len(responses) : responses[i].status = 429}
               IN  /\ Settled(g)
                   /\ tasks[g].calls = tasks[g].rateLimited + 1
                   /\ tasks[g].timeoutMs = 0
                   /\ Len(tasks[g].batchResult.successful)
                        = Cardinality(OkPositions(responses))
                   /\ Cardinality(
                        {k \in 1..Len(tasks[g].batchResult.failed) :
                            tasks[g].batchResult.failed[k].error
                                = <<"Unknown error (Status: ", "429", ")">>})
                        = Cardinality(hit)

C20_Witness ==
    \E g \in Groups :
        /\ AnsweredInFull(g)
        /\ tasks[g].calls = 1
        /\ Len(batches[g]) = 2
        /\ tasks[g].lastEnvelope[1].responses[1].status = 429
        /\ tasks[g].lastEnvelope[1].responses[2].status = 200
        /\ Len(tasks[g].batchResult.successful) = 1
        /\ Len(tasks[g].batchResult.failed) = 1

====
